---- MODULE Spec2Model ----
(***************************************************************************)
(* Model of server.py: the slug index built at startup                     *)
(* (build_slug_meta_map) and the request handler's path resolution         *)
(* (BlogRequestHandler.do_GET, translate_path, _redirect_permanent).       *)
(*                                                                         *)
(* Text (request targets, URL paths, directory names) is a sequence of     *)
(* tokens.  The tokens "/", "?", "." "%2e" and "%2f" are the characters    *)
(* and escapes the code treats specially; every other token ("blog",       *)
(* "us", "index.html", ...) stands for a run of ordinary characters.  A    *)
(* filesystem path is a sequence of components, each a token sequence; the  *)
(* filesystem is the set of its files and the set of its directories.      *)
(***************************************************************************)
EXTENDS Naturals, Sequences, FiniteSets

VARIABLES files, dirs, stack, visited, slug_to_meta, warnings, hops

vars == <<files, dirs, stack, visited, slug_to_meta, warnings, hops>>

\* ------------------------------------------------------------------ bounds

\* Most content units (directories holding index.html) in a content tree.
MaxUnits == 2
\* Most path segments of a request after the optional /blog prefix.
MaxDepth == 3
\* Most redirects a client follows after its first request.
MaxHops == 2

\* ------------------------------------------------------------------- text

SLASH == "/"
QMARK == "?"
DOT == "."

Digits == {"1", "3"}

W(s) == <<s>>

INDEX_HTML == W("index.html")
BLOG == W("blog")
None == <<>>

Last(s) == s[Len(s)]
Front(s) == SubSeq(s, 1, Len(s) - 1)

\* str.split(sep): the pieces of s between occurrences of sep (never empty:
\* "".split("/") is [""]).
RECURSIVE Split(_, _)
Split(s, sep) ==
    IF \A i \in 1..Len(s) : s[i] # sep
    THEN <<s>>
    ELSE LET k == CHOOSE i \in 1..Len(s) :
                      s[i] = sep /\ \A j \in 1..(i - 1) : s[j] # sep
         IN  <<SubSeq(s, 1, k - 1)>> \o Split(SubSeq(s, k + 1, Len(s)), sep)

\* sep.join(comps)
RECURSIVE Join(_, _)
Join(comps, sep) ==
    IF comps = <<>> THEN <<>>
    ELSE IF Len(comps) = 1 THEN comps[1]
    ELSE comps[1] \o <<sep>> \o Join(Tail(comps), sep)

\* str.lstrip('/')
RECURSIVE lstrip(_)
lstrip(s) == IF s # <<>> /\ s[1] = SLASH THEN lstrip(Tail(s)) ELSE s

\* urllib.parse.unquote on the escapes of the alphabet.
unquote(s) ==
    [i \in 1..Len(s) |-> IF s[i] = "%2e" THEN DOT
                         ELSE IF s[i] = "%2f" THEN SLASH
                         ELSE s[i]]

\* urllib.parse.urlparse(self.path).path and .query: the target is cut at its
\* first "?" (targets of the model hold no scheme, netloc, params or fragment).
urlparse_path(raw) == Split(raw, QMARK)[1]
urlparse_query(raw) ==
    LET p == Split(raw, QMARK)[1]
    IN  IF Len(p) = Len(raw) THEN <<>> ELSE SubSeq(raw, Len(p) + 2, Len(raw))

DOTDOT == <<DOT, DOT>>

\* posixpath.normpath
RECURSIVE normpath_comps(_, _, _)
normpath_comps(comps, new_comps, initial_slashes) ==
    IF comps = <<>> THEN new_comps
    ELSE LET comp == Head(comps)
             nxt  == IF comp = <<>> \/ comp = <<DOT>> THEN new_comps
                     ELSE IF \/ comp # DOTDOT
                             \/ (initial_slashes = 0 /\ new_comps = <<>>)
                             \/ (new_comps # <<>> /\ Last(new_comps) = DOTDOT)
                          THEN Append(new_comps, comp)
                     ELSE IF new_comps # <<>> THEN Front(new_comps)
                     ELSE new_comps
         IN  normpath_comps(Tail(comps), nxt, initial_slashes)

normpath(path) ==
    IF path = <<>> THEN <<DOT>>
    ELSE LET starts(n) == Len(path) >= n /\ \A i \in 1..n : path[i] = SLASH
             initial_slashes == IF ~starts(1) THEN 0
                                ELSE IF starts(2) /\ ~starts(3) THEN 2
                                ELSE 1
             joined == Join(normpath_comps(Split(path, SLASH), <<>>, initial_slashes), SLASH)
             res == [i \in 1..initial_slashes |-> SLASH] \o joined
         IN  IF res = <<>> THEN <<DOT>> ELSE res

\* ------------------------------------------------------------- filesystem

\* os.path.abspath(os.path.dirname(__file__)), as components from "/".
WORKSPACE_DIR == <<W("srv"), W("site")>>
BLOG_ROOT == Append(WORKSPACE_DIR, BLOG)

\* Directories of the content tree that may hold an index.html, relative to
\* BLOG_ROOT.
CandidateUnits ==
    { <<W("us")>>,
      <<W("us"), W("tips")>>,
      <<W("mexico"), W("tips")>>,
      <<W("us"), W("tips"), W("post")>>,
      <<W("post")>>,
      <<W("page"), W("1")>>,
      <<W("page"), W("3")>> }

Trees == {t \in SUBSET CandidateUnits : Cardinality(t) <= MaxUnits}

\* Files present in every tree: the server script, blog assets, one static
\* page, and a file outside the workspace.
StaticFiles ==
    { Append(WORKSPACE_DIR, W("server.py")),
      BLOG_ROOT \o <<W("faq"), INDEX_HTML>>,
      BLOG_ROOT \o <<W("wp-content"), W("a.css")>>,
      Append(BLOG_ROOT, W("favicon.ico")),
      <<W("srv"), W("secret")>> }

\* The files of the content tree t, and the directories a set of files lies in.
FilesOf(t) == StaticFiles \cup {BLOG_ROOT \o u \o <<INDEX_HTML>> : u \in t}

DirsOf(fs) == UNION {{SubSeq(f, 1, n) : n \in 0..(Len(f) - 1)} : f \in fs}

\* The kernel's path resolution: "" and "." stay, ".." goes up, a name goes
\* down into an existing directory, or names a file as the last step.
\* Returns <<kind, path>> with kind "dir", "file" or "none".
RECURSIVE lookup(_, _)
lookup(cur, rest) ==
    IF rest = <<>> THEN <<"dir", cur>>
    ELSE LET comp == Head(rest)
         IN  IF comp = <<>> \/ comp = <<DOT>> THEN lookup(cur, Tail(rest))
             ELSE IF comp = DOTDOT
                  THEN lookup(IF cur = <<>> THEN cur ELSE Front(cur), Tail(rest))
             ELSE LET nxt == Append(cur, comp)
                  IN  IF nxt \in dirs THEN lookup(nxt, Tail(rest))
                      ELSE IF nxt \in files /\ Len(rest) = 1 THEN <<"file", nxt>>
                      ELSE <<"none", nxt>>

isfile(p) == lookup(<<>>, p)[1] = "file"
isdir(p) == lookup(<<>>, p)[1] = "dir"

\* os.path.join(a, rel) for a relative text rel
join_text(a, rel) == IF rel = <<>> THEN Append(a, <<>>) ELSE a \o Split(rel, SLASH)

\* ------------------------------------------------------------ slug index

SlugMeta(slug, abs_index_path, language, category) ==
    [slug |-> slug, abs_index_path |-> abs_index_path,
     language |-> language, category |-> category]

\* Lines 33-38: the record of the directory current_dir (relative to
\* BLOG_ROOT; the root itself has rel_dir ".").
unit_meta(d) ==
    LET parts == IF d = <<>> THEN <<W(DOT)>> ELSE d
        slug  == Last(parts)
    IN  SlugMeta(slug, BLOG_ROOT \o d \o <<INDEX_HTML>>,
                 IF Len(parts) >= 3 THEN parts[1] ELSE None,
                 IF Len(parts) >= 3 THEN parts[2] ELSE None)

has_index(d) == (BLOG_ROOT \o d \o <<INDEX_HTML>>) \in files

\* A build that overwrites on collision (last wins).
insert_last_wins(m, meta) ==
    [s \in DOMAIN m \cup {meta.slug} |-> IF s = meta.slug THEN meta ELSE m[s]]

\* Lines 39-42: one iteration of the loop body for a directory with index.html.
insert_first_wins(m, meta) ==
    IF meta.slug \notin DOMAIN m
    THEN [s \in DOMAIN m \cup {meta.slug} |-> IF s = meta.slug THEN meta ELSE m[s]]
    ELSE m

warn_duplicate(m, w, meta) ==
    IF meta.slug \notin DOMAIN m
    THEN w
    ELSE Append(w, <<meta.slug, meta.abs_index_path, m[meta.slug].abs_index_path>>)

\* Subdirectories of BLOG_ROOT/d.
Children(d) ==
    {c \in dirs : Len(c) = Len(BLOG_ROOT) + Len(d) + 1
                           /\ SubSeq(c, 1, Len(c) - 1) = BLOG_ROOT \o d}

RelChildren(d) == {SubSeq(c, Len(BLOG_ROOT) + 1, Len(c)) : c \in Children(d)}

\* ---------------------------------------------------------------- routing

SECTION_PREFIXES ==
    {W("us"), W("mexico"), W("latam"), W("uncategorized"), W("tag"),
     W("author"), W("page"), W("our-founder"), W("press")}

LANG_CODES == <<W("us"), W("mexico"), W("latam")>>

Langs == {LANG_CODES[i] : i \in 1..Len(LANG_CODES)}

ASSET_PREFIXES ==
    {W("wp-content"), W("cdn-cgi"), W("wp-json"), W("comments"), W("feed")}

STATIC_PAGES == {W("faq"), W("about"), W("press")}

\* "/" + "/".join(comps)
Url(comps) == <<SLASH>> \o Join(comps, SLASH)

\* A path "/x1/.../xn" has the components <<"", x1, ..., xn>>.
Abs(c) == Len(c) >= 2 /\ c[1] = <<>>
Is(c, n) == Abs(c) /\ Len(c) = n + 1
NonEmpty(x) == x # <<>>
Numeric(x) == x # <<>> /\ \A i \in 1..Len(x) : x[i] \in Digits

NoMatch ==
    [rule |-> "none", kind |-> "none", file |-> <<>>, target |-> <<>>,
     location |-> <<>>]

send_404(rule) ==
    [rule |-> rule, kind |-> "notfound", file |-> <<>>, target |-> <<>>,
     location |-> <<>>]

serve_absolute(rule, absolute_path) ==
    IF ~isfile(absolute_path) THEN send_404(rule)
    ELSE [rule |-> rule, kind |-> "serve", file |-> absolute_path,
          target |-> <<>>, location |-> <<>>]

\* A redirect that drops the query string.
redirect_without_query(rule, location_path, raw) ==
    [rule |-> rule, kind |-> "redirect", file |-> <<>>,
     target |-> location_path, location |-> location_path]

redirect_permanent(rule, location_path, raw) ==
    LET query == urlparse_query(raw)
        qs == IF query # <<>> THEN <<QMARK>> \o query ELSE <<>>
    IN  [rule |-> rule, kind |-> "redirect", file |-> <<>>,
         target |-> location_path, location |-> location_path \o qs]

canonical_slug_url(meta) ==
    IF meta.language # None /\ meta.category # None
    THEN Url(<<BLOG, meta.language, meta.category, meta.slug>>)
    ELSE Url(<<BLOG, meta.slug>>)

known(slug) == slug \in DOMAIN slug_to_meta
live(slug) == known(slug) /\ isfile(slug_to_meta[slug].abs_index_path)

\* A page redirect that always goes to the listing root.
page_url_root_only(page) == Url(<<BLOG>>)

\* The page-number redirect shared by the numeric rules.
page_url(page) == IF page = W("1") THEN Url(<<BLOG>>) ELSE Url(<<BLOG, page>>)

translate_path(raw) ==
    LET path  == normpath(unquote(raw))
        words == IF path # <<>> THEN Split(lstrip(path), SLASH) ELSE <<>>
        keep  == SelectSeq(words,
                    LAMBDA word : word # <<>> /\ \A i \in 1..Len(word) : word[i] # SLASH)
    IN  WORKSPACE_DIR \o keep

\* 0) root asset requests
rule_assets(c, raw) ==
    IF Abs(c) /\ c[2] \in ASSET_PREFIXES
    THEN LET mapped == join_text(BLOG_ROOT, lstrip(Join(c, SLASH)))
             candidate == Append(mapped, INDEX_HTML)
         IN  IF isdir(mapped) /\ isfile(candidate)
             THEN serve_absolute("assets", candidate)
             ELSE IF isfile(mapped) THEN serve_absolute("assets", mapped)
             ELSE NoMatch
    ELSE NoMatch

rule_mirror(c, raw) ==
    IF \/ Is(c, 1) /\ c[2] = W("blog2.roomiapp.com")
       \/ Is(c, 2) /\ c[2] = W("blog2.roomiapp.com") /\ c[3] \in {<<>>, INDEX_HTML}
    THEN redirect_permanent("mirror", Url(<<BLOG>>), raw)
    ELSE NoMatch

rule_root_num(c, raw) ==
    IF Is(c, 2) /\ Numeric(c[2]) /\ c[3] = INDEX_HTML
    THEN redirect_permanent("root_num", page_url(c[2]), raw)
    ELSE IF (Is(c, 1) \/ (Is(c, 2) /\ c[3] = <<>>)) /\ Numeric(c[2])
    THEN redirect_permanent("root_num", page_url(c[2]), raw)
    ELSE NoMatch

\* 0b) static pages
rule_static_pages(c, raw) ==
    IF Is(c, 1) /\ c[2] \in STATIC_PAGES
    THEN serve_absolute("static_page", BLOG_ROOT \o <<c[2], INDEX_HTML>>)
    ELSE IF Is(c, 2) /\ c[2] \in STATIC_PAGES /\ c[3] \in {INDEX_HTML, <<>>}
    THEN redirect_permanent("static_page", Url(<<c[2]>>), raw)
    ELSE NoMatch

rule_blog_root(c, raw) ==
    IF Is(c, 2) /\ c[2] = BLOG /\ c[3] = <<>>
    THEN redirect_permanent("blog_slash", Url(<<BLOG>>), raw)
    ELSE IF Is(c, 2) /\ c[2] = BLOG /\ c[3] = INDEX_HTML
    THEN redirect_permanent("blog_index", Url(<<BLOG, W("us")>>), raw)
    ELSE IF Is(c, 1) /\ c[2] = BLOG
    THEN serve_absolute("blog", Append(BLOG_ROOT, INDEX_HTML))
    ELSE NoMatch

\* 1a) language listing
rule_lang(c, raw) ==
    IF Is(c, 2) /\ c[2] = BLOG /\ c[3] \in Langs
    THEN serve_absolute("lang", BLOG_ROOT \o <<c[3], INDEX_HTML>>)
    ELSE NoMatch

\* 1a.x) slug at the language position
rule_lang_name(c, raw) ==
    IF /\ Is(c, 4) /\ c[2] = BLOG /\ c[3] \in Langs /\ NonEmpty(c[4])
       /\ c[5] \in {INDEX_HTML, <<>>}
       /\ live(c[4])
    THEN redirect_permanent("lang_name", canonical_slug_url(slug_to_meta[c[4]]), raw)
    ELSE NoMatch

\* 1a.1) category listing
rule_lang_cat(c, raw) ==
    IF /\ Is(c, 3) /\ c[2] = BLOG /\ c[3] \in Langs /\ NonEmpty(c[4])
       /\ isfile(BLOG_ROOT \o <<c[3], c[4], INDEX_HTML>>)
    THEN serve_absolute("lang_cat", BLOG_ROOT \o <<c[3], c[4], INDEX_HTML>>)
    ELSE NoMatch

\* 1a.y) /blog/<category>/<slug>[/index.html]
rule_cat_slug(c, raw) ==
    IF /\ Is(c, 4) /\ c[2] = BLOG /\ NonEmpty(c[3]) /\ NonEmpty(c[4])
       /\ c[5] \in {INDEX_HTML, <<>>}
       /\ live(c[4])
    THEN redirect_permanent("cat_slug", canonical_slug_url(slug_to_meta[c[4]]), raw)
    ELSE NoMatch

\* 1b) pagination /blog/<n>
rule_page(c, raw) ==
    IF Is(c, 2) /\ c[2] = BLOG /\ Numeric(c[3])
    THEN IF c[3] = W("1") THEN redirect_permanent("page", Url(<<BLOG>>), raw)
         ELSE serve_absolute("page", BLOG_ROOT \o <<W("page"), c[3], INDEX_HTML>>)
    ELSE NoMatch

\* 1c) /blog/page/<n>[/index.html]
rule_page_old(c, raw) ==
    IF /\ Abs(c) /\ Len(c) >= 4 /\ c[2] = BLOG /\ c[3] = W("page") /\ Numeric(c[4])
       /\ \/ Len(c) = 4
          \/ Len(c) = 5 /\ c[5] \in {INDEX_HTML, <<>>}
    THEN redirect_permanent("page_old", page_url(c[4]), raw)
    ELSE NoMatch

\* The tail (?:/index\.html)?/? after the last captured segment at position n.
legacy_tail(c, n) ==
    SubSeq(c, n + 1, Len(c)) \in {<<>>, << <<>> >>, <<INDEX_HTML>>, <<INDEX_HTML, <<>> >>}

rule_legacy_lang(c, raw) ==
    IF Abs(c) /\ c[2] \in Langs /\ legacy_tail(c, 2)
    THEN redirect_permanent("legacy_lang", Url(<<BLOG, c[2]>>), raw)
    ELSE NoMatch

rule_legacy_lang_cat(c, raw) ==
    IF /\ Abs(c) /\ Len(c) >= 3 /\ c[2] \in Langs /\ NonEmpty(c[3])
       /\ legacy_tail(c, 3)
       /\ isfile(BLOG_ROOT \o <<c[2], c[3], INDEX_HTML>>)
    THEN redirect_permanent("legacy_lang_cat", Url(<<BLOG, c[2], c[3]>>), raw)
    ELSE NoMatch

\* /blog/<category>: the first language that has it
rule_possible_category(c, raw) ==
    IF Is(c, 2) /\ c[2] = BLOG /\ NonEmpty(c[3])
       /\ \E i \in 1..Len(LANG_CODES) :
              isfile(BLOG_ROOT \o <<LANG_CODES[i], c[3], INDEX_HTML>>)
    THEN LET i == CHOOSE i \in 1..Len(LANG_CODES) :
                      /\ isfile(BLOG_ROOT \o <<LANG_CODES[i], c[3], INDEX_HTML>>)
                      /\ \A j \in 1..(i - 1) :
                             ~isfile(BLOG_ROOT \o <<LANG_CODES[j], c[3], INDEX_HTML>>)
         IN  redirect_permanent("possible_category", Url(<<BLOG, LANG_CODES[i], c[3]>>), raw)
    ELSE NoMatch

\* A nested rule that serves on a language match alone.
rule_nested_language_only(c, raw) ==
    IF Is(c, 4) /\ c[2] = BLOG /\ NonEmpty(c[3]) /\ NonEmpty(c[4]) /\ NonEmpty(c[5])
    THEN IF live(c[5]) /\ slug_to_meta[c[5]].language = c[3]
         THEN serve_absolute("nested", slug_to_meta[c[5]].abs_index_path)
         ELSE IF live(c[5])
         THEN redirect_permanent("nested", canonical_slug_url(slug_to_meta[c[5]]), raw)
         ELSE send_404("nested")
    ELSE NoMatch

\* 2) /blog/<lang>/<category>/<slug>
rule_nested(c, raw) ==
    IF Is(c, 4) /\ c[2] = BLOG /\ NonEmpty(c[3]) /\ NonEmpty(c[4]) /\ NonEmpty(c[5])
    THEN IF /\ live(c[5])
            /\ slug_to_meta[c[5]].language = c[3]
            /\ slug_to_meta[c[5]].category = c[4]
         THEN serve_absolute("nested", slug_to_meta[c[5]].abs_index_path)
         ELSE IF live(c[5])
         THEN redirect_permanent("nested", canonical_slug_url(slug_to_meta[c[5]]), raw)
         ELSE send_404("nested")
    ELSE NoMatch

\* 2b) /blog/<slug>
rule_flat(c, raw) ==
    IF Is(c, 2) /\ c[2] = BLOG /\ NonEmpty(c[3])
    THEN IF live(c[3])
         THEN redirect_permanent("flat", canonical_slug_url(slug_to_meta[c[3]]), raw)
         ELSE send_404("flat")
    ELSE NoMatch

\* 3), 4) /blog/(.../)?<slug>/index.html and /blog/(.../)?<slug>/
rule_deep(c, raw) ==
    IF /\ Abs(c) /\ Len(c) >= 4 /\ c[2] = BLOG /\ NonEmpty(c[Len(c) - 1])
       /\ \/ Last(c) = INDEX_HTML /\ known(c[Len(c) - 1])
          \/ Last(c) = <<>> /\ live(c[Len(c) - 1])
    THEN redirect_permanent("deep", canonical_slug_url(slug_to_meta[c[Len(c) - 1]]), raw)
    ELSE NoMatch

\* 5), 6) /<section>/.../<slug>/index.html and /<section>/.../<slug>/
rule_non_blog(c, raw) ==
    IF /\ Abs(c) /\ Len(c) >= 5 /\ c[2] \in SECTION_PREFIXES /\ NonEmpty(c[Len(c) - 1])
       /\ \/ Last(c) = INDEX_HTML /\ known(c[Len(c) - 1])
          \/ Last(c) = <<>> /\ live(c[Len(c) - 1])
    THEN redirect_permanent("non_blog", canonical_slug_url(slug_to_meta[c[Len(c) - 1]]), raw)
    ELSE NoMatch

\* 7) generic catch-all outside /blog/
rule_any(c, raw) ==
    IF /\ ~(Abs(c) /\ Len(c) >= 3 /\ c[2] = BLOG)
       /\ Abs(c) /\ Len(c) >= 4 /\ NonEmpty(c[Len(c) - 1])
       /\ \/ Last(c) = INDEX_HTML /\ known(c[Len(c) - 1])
          \/ Last(c) = <<>> /\ live(c[Len(c) - 1])
    THEN redirect_permanent("any", canonical_slug_url(slug_to_meta[c[Len(c) - 1]]), raw)
    ELSE NoMatch

\* 8) favicon
rule_favicon(c, raw) ==
    IF Is(c, 1) /\ c[2] = W("favicon.ico") /\ isfile(Append(BLOG_ROOT, W("favicon.ico")))
    THEN serve_absolute("favicon", Append(BLOG_ROOT, W("favicon.ico")))
    ELSE NoMatch

\* 9) default static file handling, which opens translate_path(self.path)
rule_default(c, raw) ==
    [rule |-> "default", kind |-> "delegate", file |-> translate_path(raw),
     target |-> <<>>, location |-> <<>>]

OrElse(a, b) == IF a.kind # "none" THEN a ELSE b

\* The rules in the order of do_GET; the first that matches answers.
first_match(c, raw) ==
    OrElse(rule_assets(c, raw),
    OrElse(rule_mirror(c, raw),
    OrElse(rule_root_num(c, raw),
    OrElse(rule_static_pages(c, raw),
    OrElse(rule_blog_root(c, raw),
    OrElse(rule_lang(c, raw),
    OrElse(rule_lang_name(c, raw),
    OrElse(rule_lang_cat(c, raw),
    OrElse(rule_cat_slug(c, raw),
    OrElse(rule_page(c, raw),
    OrElse(rule_page_old(c, raw),
    OrElse(rule_legacy_lang(c, raw),
    OrElse(rule_legacy_lang_cat(c, raw),
    OrElse(rule_possible_category(c, raw),
    OrElse(rule_nested(c, raw),
    OrElse(rule_flat(c, raw),
    OrElse(rule_deep(c, raw),
    OrElse(rule_non_blog(c, raw),
    OrElse(rule_any(c, raw),
    OrElse(rule_favicon(c, raw),
           rule_default(c, raw)))))))))))))))))))))

\* clean_path is parsed once (line 100) and every rule reads its components.
do_GET(raw) == first_match(Split(urlparse_path(raw), SLASH), raw)

\* --------------------------------------------------------------- requests

\* One segment of each kind the rules tell apart: a language, a category, a
\* post, the pagination directory and the first page number.
Names == {W("us"), W("tips"), W("post"), W("page"), W("1")}

RECURSIVE SeqsUpTo(_, _)
SeqsUpTo(S, n) ==
    IF n = 0 THEN {<<>>}
    ELSE LET shorter == SeqsUpTo(S, n - 1)
         IN  shorter \cup {Append(s, x) : s \in shorter, x \in S}

Suffixes == {<<>>, <<SLASH>>, <<SLASH, "index.html">>}

\* Paths /[blog/]x1/.../xn[/|/index.html] with n <= MaxDepth.
RoutePaths ==
    { (IF pre \o segs = <<>> THEN <<>> ELSE Url(pre \o segs)) \o suf :
        pre \in {<<>>, <<BLOG>>}, segs \in SeqsUpTo(Names, MaxDepth), suf \in Suffixes }
    \ {<<>>}

\* Paths with a second language or a second page number, and paths that
\* exercise the fixed rules.
FixedPaths ==
    { Url(<<W("3")>>),
      Url(<<W("3"), INDEX_HTML>>),
      Url(<<BLOG, W("3")>>),
      Url(<<BLOG, W("3"), <<>> >>),
      Url(<<BLOG, W("page"), W("3")>>),
      Url(<<BLOG, W("page"), W("3"), <<>> >>),
      Url(<<BLOG, W("page"), W("3"), INDEX_HTML>>),
      Url(<<BLOG, W("us"), W("tips"), W("3")>>),
      Url(<<BLOG, W("mexico")>>),
      Url(<<BLOG, W("mexico"), W("tips")>>),
      Url(<<BLOG, W("mexico"), W("tips"), <<>> >>),
      Url(<<BLOG, W("mexico"), W("tips"), INDEX_HTML>>),
      Url(<<W("mexico"), W("tips"), <<>> >>),
      Url(<<W("wp-content"), W("a.css")>>), Url(<<W("wp-content")>>),
      Url(<<W("favicon.ico")>>), Url(<<W("server.py")>>),
      Url(<<W("faq")>>), Url(<<W("faq"), <<>> >>),
      Url(<<W("blog2.roomiapp.com"), <<>> >>),
      Url(<<BLOG, W("x"), DOTDOT, <<>> >>) }

\* Targets built from "..", its escaped form and names, with or without a
\* leading "/", joined by "/" or its escape.
TravDepth == 2
TravAtoms == {DOTDOT, <<"%2e", "%2e">>, W("secret"), BLOG}
TravSeps == {<<SLASH>>, <<"%2f">>}

RECURSIVE TravTexts(_)
TravTexts(n) ==
    IF n = 1 THEN TravAtoms
    ELSE LET shorter == TravTexts(n - 1)
         IN  shorter \cup {s \o sep \o a : s \in shorter, sep \in TravSeps, a \in TravAtoms}

TravPaths == {lead \o t : lead \in {<<>>, <<SLASH>>}, t \in TravTexts(TravDepth)}

Paths == RoutePaths \cup FixedPaths \cup TravPaths

Queries == {<<>>, <<"q", QMARK, "x">>}

Target(path, query) == IF query = <<>> THEN path ELSE path \o <<QMARK>> \o query

Hop(path, query, raw) ==
    [path |-> path, query |-> query, raw |-> raw, out |-> do_GET(raw)]

Init ==
    /\ \E t \in Trees : files = FilesOf(t) /\ dirs = DirsOf(FilesOf(t))
    /\ stack = << {<<>>} >>
    /\ visited = {}
    /\ slug_to_meta = <<>>
    /\ warnings = <<>>
    /\ hops = <<>>

\* One step of os.walk(BLOG_ROOT), top-down: the next directory of the
\* innermost listing still open (in whatever order the listing yields), the
\* loop body for it, then its own listing is opened.
WalkStep ==
    /\ stack # <<>>
    /\ Head(stack) # {}
    /\ \E d \in Head(stack) :
         /\ visited' = visited \cup {d}
         /\ stack' = <<RelChildren(d)>> \o <<Head(stack) \ {d}>> \o Tail(stack)
         /\ IF has_index(d)
            THEN /\ slug_to_meta' = insert_first_wins(slug_to_meta, unit_meta(d))
                 /\ warnings' = warn_duplicate(slug_to_meta, warnings, unit_meta(d))
            ELSE UNCHANGED <<slug_to_meta, warnings>>
    /\ UNCHANGED <<files, dirs, hops>>

\* A listing is exhausted: os.walk returns to the parent directory.
WalkReturn ==
    /\ stack # <<>>
    /\ Head(stack) = {}
    /\ stack' = Tail(stack)
    /\ UNCHANGED <<files, dirs, visited, slug_to_meta, warnings, hops>>

\* SLUG_META is complete before the server starts: a client sends a request
\* and the handler answers it.
Request ==
    /\ stack = <<>>
    /\ hops = <<>>
    /\ \E path \in Paths, query \in Queries :
         hops' = <<Hop(path, query, Target(path, query))>>
    /\ UNCHANGED <<files, dirs, stack, visited, slug_to_meta, warnings>>

\* The client follows a 301 by requesting its Location.
Follow ==
    /\ stack = <<>>
    /\ hops # <<>>
    /\ Len(hops) <= MaxHops
    /\ Last(hops).out.kind = "redirect"
    /\ LET loc == Last(hops).out.location
       IN  hops' = Append(hops, Hop(urlparse_path(loc), urlparse_query(loc), loc))
    /\ UNCHANGED <<files, dirs, stack, visited, slug_to_meta, warnings>>

Next == WalkStep \/ WalkReturn \/ Request \/ Follow

Spec == Init /\ [][Next]_vars

\* ----------------------------------------------------------------- claims

Started == stack = <<>>

HopIdx == 1..Len(hops)

UnitsVisited == {d \in visited : has_index(d)}

\* The state half of C5: every slug of a visited unit is in the map with the
\* record of one visited unit of that name, and there is one warning per
\* visited unit that lost.
C5_Inv ==
    /\ DOMAIN slug_to_meta = {unit_meta(d).slug : d \in UnitsVisited}
    /\ \A s \in DOMAIN slug_to_meta :
         \E d \in UnitsVisited : slug_to_meta[s] = unit_meta(d)
    /\ Len(warnings) = Cardinality(UnitsVisited) - Cardinality(DOMAIN slug_to_meta)

\* The step half of C5: no step changes or removes a record already in the
\* map; a step that visits a unit whose name is absent inserts exactly its
\* record and warns nothing; a step that visits a unit whose name is present
\* leaves the map unchanged and adds one warning naming both paths.
C5_Step ==
    /\ \A s \in DOMAIN slug_to_meta :
         s \in DOMAIN slug_to_meta' /\ slug_to_meta'[s] = slug_to_meta[s]
    /\ \A d \in visited' \ visited :
         has_index(d) =>
           LET meta == unit_meta(d)
           IN  IF meta.slug \in DOMAIN slug_to_meta
               THEN /\ slug_to_meta' = slug_to_meta
                    /\ Len(warnings') = Len(warnings) + 1
                    /\ Last(warnings')[1] = meta.slug
                    /\ Last(warnings')[2] = meta.abs_index_path
                    /\ Last(warnings')[3] = slug_to_meta[meta.slug].abs_index_path
               ELSE /\ DOMAIN slug_to_meta' = DOMAIN slug_to_meta \cup {meta.slug}
                    /\ slug_to_meta'[meta.slug] = meta
                    /\ warnings' = warnings

\* C5: index construction is first-wins.  Each slug name that occurred maps
\* to the record of the first unit met with that name, a record once inserted
\* is never overwritten, one record survives per name, and each later unit of
\* a name already present produces a warning and leaves the map unchanged.
C5_FirstWins == [](C5_Inv) /\ [][C5_Step]_vars

\* C5 witness: the build has met a second unit of a name already mapped, the
\* first record is kept and a warning was emitted.
C5_Witness ==
    /\ Started
    /\ Len(warnings) >= 1
    /\ \E d \in UnitsVisited :
         /\ unit_meta(d).slug \in DOMAIN slug_to_meta
         /\ slug_to_meta[unit_meta(d).slug] # unit_meta(d)

SlugRules == {"lang_name", "cat_slug", "nested", "flat", "deep", "non_blog", "any"}

\* C1: a 301 issued by a slug-based rule (its target is the slug's canonical
\* URL) is never followed by another redirect when its Location is requested.
C1_NoRedirectChain ==
    \A i \in HopIdx :
        (i < Len(hops) /\ hops[i].out.kind = "redirect" /\ hops[i].out.rule \in SlugRules)
            => hops[i + 1].out.kind # "redirect"

\* C2: for every slug s of the index, /blog/<s> is answered by a 301 to the
\* canonical URL of s's record.
C2_FlatRedirectsToCanonical ==
    \A i \in HopIdx :
        \A s \in DOMAIN slug_to_meta :
            (hops[i].path = Url(<<BLOG, s>>) /\ isfile(slug_to_meta[s].abs_index_path))
                => /\ hops[i].out.kind = "redirect"
                   /\ hops[i].out.target = canonical_slug_url(slug_to_meta[s])

PageOneForms ==
    { Url(<<BLOG, W("1")>>), Url(<<BLOG, W("page"), W("1")>>),
      Url(<<BLOG, W("page"), W("1"), <<>> >>),
      Url(<<BLOG, W("page"), W("1"), INDEX_HTML>>) }

\* C3: /blog/1, /blog/page/1[/] and /blog/page/1/index.html are each answered
\* by a 301 to /blog, and /blog/page/<n>/index.html with n other than 1 by a
\* 301 to /blog/<n>, whatever the content tree.
C3_PageOneForms ==
    \A i \in HopIdx :
        /\ hops[i].path \in PageOneForms
             => hops[i].out.kind = "redirect" /\ hops[i].out.target = Url(<<BLOG>>)
        /\ \A n \in Digits \ {"1"} :
             hops[i].path = Url(<<BLOG, W("page"), W(n), INDEX_HTML>>)
               => /\ hops[i].out.kind = "redirect"
                  /\ hops[i].out.target = Url(<<BLOG, W(n)>>)

\* A request /blog/page/<n>, n a number other than 1, whose page is missing.
MissingLegacyPage(h) ==
    \E n \in Digits \ {"1"} :
        /\ h.path = Url(<<BLOG, W("page"), W(n)>>)
        /\ ~isfile(BLOG_ROOT \o <<W("page"), W(n), INDEX_HTML>>)

\* C4 as stated: /blog/page/<n> (n other than 1) with no
\* blog/page/<n>/index.html is answered NotFound.
C4_LegacyPageNotFound ==
    \A i \in HopIdx : MissingLegacyPage(hops[i]) => hops[i].out.kind = "notfound"

\* C4 amended: such a request is answered by a 301 to /blog/<n>, and it is the
\* request for that target that is answered NotFound.
C4_LegacyPageRedirectsThenNotFound ==
    \A i \in HopIdx :
        MissingLegacyPage(hops[i]) =>
            /\ hops[i].out.kind = "redirect"
            /\ \E n \in Digits \ {"1"} :
                 /\ hops[i].path = Url(<<BLOG, W("page"), W(n)>>)
                 /\ hops[i].out.target = Url(<<BLOG, W(n)>>)
            /\ i < Len(hops) => hops[i + 1].out.kind = "notfound"

\* C4 witness: /blog/page/3 with page 3 missing was redirected and the
\* redirect followed to a 404.
C4_Witness ==
    /\ Len(hops) >= 2
    /\ MissingLegacyPage(hops[1])
    /\ hops[1].out.kind = "redirect"
    /\ hops[2].out.kind = "notfound"

\* C6: the query string never decides the outcome: a request is answered with
\* the same kind, the same file and the same redirect target path as the
\* request for the same path with no query string.
C6_QueryNeverInspected ==
    \A i \in HopIdx :
        LET bare == do_GET(hops[i].path)
        IN  /\ hops[i].out.kind = bare.kind
            /\ hops[i].out.file = bare.file
            /\ hops[i].out.target = bare.target

\* C7: the Location of every 301 is the rule's target path, followed by "?"
\* and the request's query string when that is non-empty.
C7_LocationKeepsQuery ==
    \A i \in HopIdx :
        hops[i].out.kind = "redirect" =>
            hops[i].out.location =
                IF hops[i].query # <<>>
                THEN hops[i].out.target \o <<QMARK>> \o hops[i].query
                ELSE hops[i].out.target

\* C7 witness: a first request with a query string was redirected.
C7_Witness ==
    /\ Len(hops) = 1
    /\ hops[1].query # <<>>
    /\ hops[1].out.kind = "redirect"
    /\ hops[1].out.location # hops[1].out.target

\* Where the kernel ends up for a path: ".." goes to the parent.
RECURSIVE Resolved(_, _)
Resolved(cur, rest) ==
    IF rest = <<>> THEN cur
    ELSE IF Head(rest) = DOTDOT
         THEN Resolved(IF cur = <<>> THEN cur ELSE Front(cur), Tail(rest))
    ELSE IF Head(rest) \in {<<>>, <<DOT>>} THEN Resolved(cur, Tail(rest))
    ELSE Resolved(Append(cur, Head(rest)), Tail(rest))

InsideWorkspace(p) ==
    LET r == Resolved(<<>>, p)
    IN  Len(r) >= Len(WORKSPACE_DIR) /\ SubSeq(r, 1, Len(WORKSPACE_DIR)) = WORKSPACE_DIR

\* C8: the path translate_path hands to static file serving is inside the
\* workspace root, for every request target.
C8_DelegateInsideWorkspace ==
    \A i \in HopIdx :
        hops[i].out.kind = "delegate" => InsideWorkspace(hops[i].out.file)

\* A path of the exact shape /blog/<a>/<b>/<c>, c not index.html.
ThreeSegment(path) ==
    LET c == Split(path, SLASH)
    IN  /\ Len(c) = 5 /\ c[1] = <<>> /\ c[2] = BLOG
        /\ c[3] # <<>> /\ c[4] # <<>> /\ c[5] # <<>> /\ c[5] # INDEX_HTML

\* C9: a request /blog/<a>/<b>/<c> is decided by the nested rule: it serves
\* the record's index file iff c is indexed with language a and category b,
\* redirects to c's canonical URL iff c is indexed otherwise, and is NotFound
\* iff c is not indexed.
C9_NestedShapeDecided ==
    \A i \in HopIdx :
        ThreeSegment(hops[i].path) =>
            LET c == Split(hops[i].path, SLASH)
                o == hops[i].out
                indexed == c[5] \in DOMAIN slug_to_meta
                own == /\ indexed
                       /\ slug_to_meta[c[5]].language = c[3]
                       /\ slug_to_meta[c[5]].category = c[4]
            IN  /\ o.rule = "nested"
                /\ o.kind \in {"serve", "redirect", "notfound"}
                /\ o.kind = "serve" <=> own
                /\ o.kind = "serve" => o.file = slug_to_meta[c[5]].abs_index_path
                /\ o.kind = "redirect" <=> (indexed /\ ~own)
                /\ o.kind = "redirect" => o.target = canonical_slug_url(slug_to_meta[c[5]])
                /\ o.kind = "notfound" <=> ~indexed

\* C9 witness: a three-segment request was served its own content unit.
C9_Witness ==
    /\ hops # <<>>
    /\ ThreeSegment(hops[1].path)
    /\ hops[1].out.kind = "serve"

\* The category listings of the languages other than lang.
OtherCategoryListings(lang) ==
    {BLOG_ROOT \o <<l, n, INDEX_HTML>> : l \in Langs \ {lang}, n \in Names}

\* C10: when /blog/<lang>/<name>/ or /blog/<lang>/<name>/index.html names an
\* existing category of that language, the request is not redirected by the
\* slug-at-language-position rule, and following its redirects never serves
\* another language's category listing.
C10_CategoryNotTakenForSlug ==
    (hops # <<>>) =>
        LET c == Split(hops[1].path, SLASH)
        IN  ( /\ Len(c) = 5 /\ c[1] = <<>> /\ c[2] = BLOG /\ c[3] \in Langs
              /\ c[4] # <<>> /\ c[5] \in {<<>>, INDEX_HTML}
              /\ isfile(BLOG_ROOT \o <<c[3], c[4], INDEX_HTML>>) )
            => /\ ~(hops[1].out.kind = "redirect" /\ hops[1].out.rule = "lang_name")
               /\ \A j \in HopIdx :
                    hops[j].out.kind = "serve"
                        => hops[j].out.file \notin OtherCategoryListings(c[3])
====
